---------------------------- MODULE Spec2Model ----------------------------
(***************************************************************************)
(* Model of pytest-profiling/pytest_profiling.py: the filename sanitizer   *)
(* clean_filename and the Profiling plugin, driven by the host's hooks     *)
(* pytest_configure, pytest_sessionstart, pytest_pyfunc_call,              *)
(* pytest_sessionfinish and pytest_terminal_summary.                       *)
(*                                                                         *)
(* Characters are codepoints (ord(c) is the identity), strings are         *)
(* sequences of codepoints.  A path os.path.join("prof", stem + ext) is    *)
(* the triple <<"prof", stem, ext>>.  A statistics object is a bag of      *)
(* profile entries; the entry a test run contributes is the index of the   *)
(* run, so merging (pstats.Stats.add) is bag sum.                          *)
(***************************************************************************)
EXTENDS Integers, Sequences, FiniteSets, Bags, TLC

VARIABLES
    opts,             \* config values: profile, profile_svg, profile_combined_only
    registered,       \* a Profiling instance is registered with the plugin manager
    svg,              \* self.svg
    combined_only,    \* self.combined_only
    prof_names,       \* self.prof_names
    svg_name,         \* self.svg_name
    combined_name,    \* self.combined_name
    shared_profiler,  \* self.shared_profiler
    fs,               \* files written under prof/ : path -> contents
    dir_ok,           \* prof/ exists and can be written to
    phase,            \* where the host is in its lifecycle
    runs,             \* per-test hook invocations so far: name and outcome
    hook_res,         \* how the session-level hooks ended
    out,              \* what was written to the terminal reporter
    cf_in, cf_out, cf_again, cf_pc   \* clean_filename applied on its own

vars == <<opts, registered, svg, combined_only, prof_names, svg_name,
          combined_name, shared_profiler, fs, dir_ok, phase, runs, hook_res,
          out, cf_in, cf_out, cf_again, cf_pc>>

pluginVars == <<svg, combined_only, prof_names, svg_name, combined_name,
                shared_profiler>>
cfVars == <<cf_in, cf_out, cf_again, cf_pc>>

---------------------------------------------------------------------------
(* Bounds *)

MaxTests == 2
MaxLen == 3

---------------------------------------------------------------------------
(* clean_filename *)

Underscore == 95
AsciiLimit == 127

\* set('/?<>\:*|"') : " * / : < > ? \ |
forbidden_chars == {34, 42, 47, 58, 60, 62, 63, 92, 124}

clean_char_limit128(c) ==
    IF c \notin forbidden_chars /\ c < AsciiLimit + 1 THEN c ELSE Underscore

clean_char_inverted(c) ==
    IF c \in forbidden_chars \/ c >= AsciiLimit THEN c ELSE Underscore

\* c if c not in forbidden_chars and ord(c) < 127 else '_'
clean_char(c) ==
    IF c \notin forbidden_chars /\ c < AsciiLimit THEN c ELSE Underscore

\* "".join(... for c in s)
clean_filename(s) == [i \in 1..Len(s) |-> clean_char(s[i])]

---------------------------------------------------------------------------
(* Paths and statistics *)

None == <<>>

CombinedStem == <<99, 111, 109, 98, 105, 110, 101, 100>>   \* "combined"

join(stem, ext) == <<"prof", stem, ext>>

combined_file == join(CombinedStem, "prof")
svg_file == join(CombinedStem, "svg")

\* os.path.join("prof", clean_filename(pyfuncitem.name) + ".prof")
prof_path(name) == join(clean_filename(name), "prof")

\* cProfile.Profile(): a profiler that has captured nothing yet
NewProfile == [present |-> TRUE, stats |-> EmptyBag]
NoProfile == [present |-> FALSE, stats |-> EmptyBag]

WriteKeepOld(files, path, content) == files @@ (path :> content)

\* open(path, 'wb') and marshal.dump: the file is created or replaced
Write(files, path, content) == (path :> content) @@ files

\* the names the host gives its tests: a, a/b, a:b, a_b, e-acute, combined
TestNames == { <<97>>, <<97, 47, 98>>, <<97, 58, 98>>, <<97, 95, 98>>,
               <<233>>, CombinedStem }

---------------------------------------------------------------------------
(* Initial state: the command line is parsed, nothing is registered *)

Options == [profile : BOOLEAN, profile_svg : BOOLEAN,
            profile_combined_only : BOOLEAN]

NoHookRun == [start |-> "none", mkdir |-> "none", finish |-> "none",
              render |-> "none", summary |-> "none", summary_at |-> "none"]

SessionIdle ==
    /\ registered = FALSE
    /\ svg = FALSE
    /\ combined_only = FALSE
    /\ prof_names = <<>>
    /\ svg_name = None
    /\ combined_name = None
    /\ shared_profiler = NoProfile
    /\ fs = <<>>
    /\ dir_ok = FALSE
    /\ phase = "init"
    /\ runs = <<>>
    /\ hook_res = NoHookRun
    /\ out = <<>>

CleanIdle ==
    /\ cf_in = <<>>
    /\ cf_out = <<>>
    /\ cf_again = <<>>
    /\ cf_pc = "idle"

Init ==
    /\ opts \in Options
    /\ SessionIdle
    /\ CleanIdle

---------------------------------------------------------------------------
(* Profiling.__init__ and pytest_configure *)

Profiling_init(svg_arg, combined_only_arg) ==
    /\ svg' = svg_arg
    /\ combined_only' = combined_only_arg
    /\ prof_names' = <<>>
    /\ svg_name' = None
    /\ combined_name' = None
    /\ shared_profiler' = IF combined_only_arg THEN NewProfile ELSE NoProfile

profile_enable_any_option ==
    opts.profile \/ opts.profile_svg \/ opts.profile_combined_only

\* any(config.getvalue(x) for x in ('profile', 'profile_svg'))
profile_enable == opts.profile \/ opts.profile_svg

pytest_configure ==
    /\ phase = "init"
    /\ phase' = "configured"
    /\ IF profile_enable
       THEN /\ Profiling_init(opts.profile_svg, opts.profile_combined_only)
            /\ registered' = TRUE
       ELSE UNCHANGED <<pluginVars, registered>>
    /\ UNCHANGED <<opts, fs, dir_ok, runs, hook_res, out, cfVars>>

---------------------------------------------------------------------------
(* pytest_sessionstart *)

\* what os.makedirs("prof") can do: create the directory, or raise OSError
\* because it exists already, or raise OSError for another reason
MakedirsOutcomes == {"ok", "EEXIST", "EACCES"}

\* except OSError: pass
OSErrorPropagates(outcome) == FALSE

pytest_sessionstart(outcome) ==
    /\ registered
    /\ phase = "configured"
    /\ dir_ok' = (outcome \in {"ok", "EEXIST"})
    /\ IF outcome # "ok" /\ OSErrorPropagates(outcome)
       THEN /\ hook_res' = [hook_res EXCEPT !.start = "raised", !.mkdir = outcome]
            /\ phase' = "aborted"
       ELSE /\ hook_res' = [hook_res EXCEPT !.start = "returned", !.mkdir = outcome]
            /\ phase' = "running"
    /\ UNCHANGED <<opts, registered, pluginVars, fs, runs, out, cfVars>>

---------------------------------------------------------------------------
(* pytest_pyfunc_call *)

PerTestNameAlways(name) == prof_path(name)

PerTestNameRaw(name) == IF combined_only THEN None ELSE join(name, "prof")

\* lines 72-77: the path of the per-test file, None in combined-only mode
PerTestName(name) == IF combined_only THEN None ELSE prof_path(name)

\* what profiler.runcall(__multicall__.execute) records for run k
Captured(k) == SetToBag({k})

RecordNothing(names, prof_name) == names

\* self.prof_names.append(prof_name)
RecordCapture(names, prof_name) == Append(names, prof_name)

HookProfilerFresh == NewProfile

\* lines 72-77: the shared profiler, or a new cProfile.Profile()
HookProfiler == IF combined_only THEN shared_profiler ELSE NewProfile

DumpsWhenNamed(outcome, prof_name) ==
    outcome # "dump_raised" /\ prof_name # None

\* lines 79-81: the dump is reached when runcall returned and prof_name is set
Dumps(outcome, prof_name) == outcome = "returned" /\ prof_name # None

pytest_pyfunc_call(name, body_raises) ==
    /\ registered
    /\ phase = "running"
    /\ Len(runs) < MaxTests
    /\ LET k == Len(runs) + 1
           prof_name == PerTestName(name)
           profiler == HookProfiler
           ran == [profiler EXCEPT !.stats = @ (+) Captured(k)]
           outcome == IF body_raises THEN "body_raised"
                      ELSE IF prof_name # None /\ ~dir_ok THEN "dump_raised"
                      ELSE "returned"
       IN /\ shared_profiler' = IF combined_only THEN ran ELSE shared_profiler
          /\ runs' = Append(runs, [name |-> name, outcome |-> outcome])
          /\ IF Dumps(outcome, prof_name)
             THEN /\ fs' = Write(fs, prof_name, [kind |-> "pstats", stats |-> ran.stats])
                  /\ prof_names' = RecordCapture(prof_names, prof_name)
             ELSE UNCHANGED <<fs, prof_names>>
    /\ UNCHANGED <<opts, registered, svg, combined_only, svg_name,
                   combined_name, dir_ok, phase, hook_res, out, cfVars>>

---------------------------------------------------------------------------
(* pytest_sessionfinish *)

\* pstats.Stats(path): the statistics read back from a file
LoadStats(path) == fs[path].stats

\* combined = pstats.Stats(self.prof_names[0])
\* for prof in self.prof_names[1:]: combined.add(prof)
RECURSIVE MergeFrom(_, _, _)
MergeFrom(names, i, acc) ==
    IF i > Len(names) THEN acc
    ELSE MergeFrom(names, i + 1, acc (+) LoadStats(names[i]))

MergeFirstOnly(names) == LoadStats(names[1])

MergeAll(names) == MergeFrom(names, 2, LoadStats(names[1]))

CombinedSourceNeedsNames ==
    IF prof_names # <<>>
    THEN [present |-> TRUE, stats |-> MergeAll(prof_names)]
    ELSE NoProfile

CombinedSourceAlways ==
    IF combined_only THEN shared_profiler
    ELSE IF prof_names # <<>>
    THEN [present |-> TRUE, stats |-> MergeAll(prof_names)]
    ELSE NewProfile

\* lines 41-48: the shared profiler, the merge of the per-test files, or None
CombinedSource ==
    IF combined_only THEN shared_profiler
    ELSE IF prof_names # <<>>
    THEN [present |-> TRUE, stats |-> MergeAll(prof_names)]
    ELSE NoProfile

RenderAlways == TRUE

\* if self.svg:
RenderRequested == svg

\* t.copy(...) is os.system(pipeline): its exit status is returned, not raised
PipelineFailurePropagates == FALSE

pytest_sessionfinish(pipeline_ok) ==
    /\ registered
    /\ phase = "running"
    /\ phase' = "finished"
    /\ LET combined == CombinedSource
           dumped == Write(fs, combined_file,
                           [kind |-> "pstats", stats |-> combined.stats])
           rendered == Write(dumped, svg_file,
                             [kind |-> "svg", stats |-> combined.stats])
       IN IF ~combined.present
          THEN /\ hook_res' = [hook_res EXCEPT !.finish = "returned"]
               /\ UNCHANGED <<fs, combined_name, svg_name>>
          ELSE IF ~dir_ok
          THEN \* combined.dump_stats(combined_file) cannot open the file
               /\ hook_res' = [hook_res EXCEPT !.finish = "raised"]
               /\ UNCHANGED <<fs, combined_name, svg_name>>
          ELSE IF ~RenderRequested
          THEN /\ hook_res' = [hook_res EXCEPT !.finish = "returned"]
               /\ fs' = dumped
               /\ combined_name' = combined_file
               /\ UNCHANGED svg_name
          ELSE /\ combined_name' = combined_file
               /\ svg_name' = svg_file
               /\ fs' = IF pipeline_ok THEN rendered ELSE dumped
               /\ hook_res' =
                    [hook_res EXCEPT
                       !.render = IF pipeline_ok THEN "ok" ELSE "failed",
                       !.finish = IF ~pipeline_ok /\ PipelineFailurePropagates
                                  THEN "raised" ELSE "returned"]
    /\ UNCHANGED <<opts, registered, svg, combined_only, prof_names,
                   shared_profiler, dir_ok, runs, out, cfVars>>

---------------------------------------------------------------------------
(* pytest_terminal_summary *)

HeaderMsg(path) == <<"Profiling (from {prof}):", path>>
StatsMsg(stats) == <<"print_stats", stats>>
SvgMsg(path) == <<"SVG profile in {svg}.", path>>

\* if self.combined_name:
ShowCombined == combined_name # None

\* if self.svg_name:
ShowSvg == svg_name # None

pytest_terminal_summary ==
    /\ registered
    /\ phase \in {"configured", "running", "finished"}
    /\ hook_res.summary = "none"
    /\ LET header == IF ShowCombined THEN <<HeaderMsg(combined_name)>> ELSE <<>>
           \* pstats.Stats(file) raises TypeError when the file holds no entry
           loadable == ShowCombined => /\ combined_name \in DOMAIN fs
                                       /\ LoadStats(combined_name) # EmptyBag
           listing == IF ShowCombined /\ loadable
                      THEN <<StatsMsg(LoadStats(combined_name))>> ELSE <<>>
           svgmsg == IF ShowSvg /\ loadable THEN <<SvgMsg(svg_name)>> ELSE <<>>
       IN /\ out' = out \o header \o listing \o svgmsg
          /\ hook_res' = [hook_res EXCEPT
                            !.summary = IF loadable THEN "returned" ELSE "raised",
                            !.summary_at = phase]
    /\ UNCHANGED <<opts, registered, pluginVars, fs, dir_ok, phase, runs, cfVars>>

---------------------------------------------------------------------------
(* The session: the host calls the hooks *)

Next ==
    \/ pytest_configure
    \/ \E outcome \in MakedirsOutcomes : pytest_sessionstart(outcome)
    \/ \E name \in TestNames, body_raises \in BOOLEAN :
           pytest_pyfunc_call(name, body_raises)
    \/ \E pipeline_ok \in BOOLEAN : pytest_sessionfinish(pipeline_ok)
    \/ pytest_terminal_summary

Spec == Init /\ [][Next]_vars

---------------------------------------------------------------------------
(* clean_filename on its own: any string over CleanChars up to MaxLen *)

\* the forbidden characters, and a, ~, _, DEL and e-acute
CleanChars == forbidden_chars \cup {97, 126, 95, 127, 233}

CleanInputs == UNION { [1..n -> CleanChars] : n \in 0..MaxLen }

CleanInit ==
    /\ opts = [profile |-> FALSE, profile_svg |-> FALSE,
               profile_combined_only |-> FALSE]
    /\ SessionIdle
    /\ cf_in \in CleanInputs
    /\ cf_out = <<>>
    /\ cf_again = <<>>
    /\ cf_pc = "idle"

CleanCall ==
    /\ cf_pc = "idle"
    /\ cf_out' = clean_filename(cf_in)
    /\ cf_pc' = "cleaned"
    /\ UNCHANGED <<opts, registered, pluginVars, fs, dir_ok, phase, runs,
                   hook_res, out, cf_in, cf_again>>

CleanAgain ==
    /\ cf_pc = "cleaned"
    /\ cf_again' = clean_filename(cf_out)
    /\ cf_pc' = "recleaned"
    /\ UNCHANGED <<opts, registered, pluginVars, fs, dir_ok, phase, runs,
                   hook_res, out, cf_in, cf_out>>

CleanNext == CleanCall \/ CleanAgain

SpecClean == CleanInit /\ [][CleanNext]_vars

---------------------------------------------------------------------------
(* Vocabulary of the properties *)

Range(s) == { s[i] : i \in 1..Len(s) }

IsReturned(r) == r.outcome = "returned"

\* the per-test hook invocations that ran the test and returned normally
CompletedRuns == SelectSeq(runs, IsReturned)

CompletedPaths == [i \in 1..Len(CompletedRuns) |-> prof_path(CompletedRuns[i].name)]

\* the statistics files (*.prof) written under prof/
ProfFiles == { p \in DOMAIN fs : p[3] = "prof" }

PerTestMode == registered /\ ~combined_only
CombinedOnlyMode == registered /\ combined_only

FinishReturned == hook_res.finish = "returned"

CombinedProduced == combined_name = combined_file /\ combined_file \in DOMAIN fs
CombinedAbsent == combined_name = None /\ combined_file \notin DOMAIN fs

SanitizedDistinct ==
    /\ \A i, j \in 1..Len(CompletedPaths) :
          i # j => CompletedPaths[i] # CompletedPaths[j]
    /\ combined_file \notin Range(CompletedPaths)

---------------------------------------------------------------------------
(* C1 *)

\* C1 as stated: in per-test mode, after session finish with N >= 1 executed
\* tests, there are exactly N per-test statistics files plus the combined
\* file, whatever the test names are.
C1_ExactlyNPlusOne ==
    (PerTestMode /\ FinishReturned /\ Len(CompletedRuns) >= 1)
        => Cardinality(ProfFiles) = Len(CompletedRuns) + 1

\* C1 (amended): in per-test mode, after session finish, the record list holds
\* one entry per completed per-test hook invocation, the i-th being
\* prof/<clean_filename(name_i)>.prof; with N >= 1 of them the statistics
\* files under prof/ are exactly those paths and prof/combined.prof, and they
\* are N + 1 distinct files exactly when the sanitized names are pairwise
\* distinct and none of them is "combined".
C1_PerTestFiles ==
    (PerTestMode /\ FinishReturned)
        => /\ prof_names = CompletedPaths
           /\ Len(CompletedRuns) >= 1 =>
                /\ ProfFiles = Range(CompletedPaths) \cup {combined_file}
                /\ CombinedProduced
                /\ (Cardinality(ProfFiles) = Len(CompletedRuns) + 1)
                       <=> SanitizedDistinct

C1_Witness ==
    /\ PerTestMode /\ FinishReturned
    /\ Len(CompletedRuns) = 2
    /\ CompletedRuns[1].name = <<97, 47, 98>>
    /\ Cardinality(ProfFiles) = 3

---------------------------------------------------------------------------
(* C2 *)

\* C2: in combined-only mode no per-test statistics file is ever written and
\* prof_names stays empty; after session finish the one statistics file is
\* prof/combined.prof, dumped from the shared profiler, which captured every
\* one of the N test bodies.
C2_CombinedOnly ==
    CombinedOnlyMode
        => /\ prof_names = <<>>
           /\ ProfFiles \subseteq {combined_file}
           /\ shared_profiler.present
           /\ shared_profiler.stats = SetToBag(1..Len(runs))
           /\ FinishReturned =>
                /\ ProfFiles = {combined_file}
                /\ combined_name = combined_file
                /\ fs[combined_file].stats = shared_profiler.stats

C2_Witness ==
    /\ CombinedOnlyMode /\ FinishReturned
    /\ Len(runs) = 2
    /\ fs[combined_file].stats = SetToBag({1, 2})

---------------------------------------------------------------------------
(* C3 *)

\* C3 as stated: with zero executed tests, whatever the flags, session finish
\* creates no combined file and the terminal summary writes nothing.
C3_ZeroTestsAnyFlags ==
    (registered /\ phase = "finished" /\ runs = <<>>)
        => CombinedAbsent /\ out = <<>>

\* C3 (amended): with zero executed tests in per-test mode (combined-only
\* off, svg on or off), session finish creates no combined file and the
\* terminal summary writes nothing.
C3_ZeroTestsPerTest ==
    (PerTestMode /\ phase = "finished" /\ runs = <<>>)
        => CombinedAbsent /\ svg_name = None /\ fs = <<>> /\ out = <<>>

C3_Witness ==
    /\ PerTestMode /\ svg
    /\ phase = "finished" /\ runs = <<>>
    /\ hook_res.summary = "returned" /\ hook_res.summary_at = "finished"

---------------------------------------------------------------------------
(* C4 *)

---------------------------------------------------------------------------
(* C5, C6 *)

\* C5: clean_filename(s) has the length of s and, at every position, is '_'
\* where s has one of / ? < > \ : * | " or a codepoint >= 127, and the
\* character of s otherwise.
C5_Positional ==
    cf_pc # "idle"
        => /\ Len(cf_out) = Len(cf_in)
           /\ \A i \in 1..Len(cf_in) :
                cf_out[i] = IF \/ cf_in[i] \in {47, 63, 60, 62, 92, 58, 42, 124, 34}
                               \/ cf_in[i] >= 127
                            THEN 95 ELSE cf_in[i]

C5_Witness ==
    /\ cf_pc = "cleaned"
    /\ cf_in = <<92, 127, 126>>
    /\ cf_out = <<95, 95, 126>>

\* C6: clean_filename(clean_filename(x)) = clean_filename(x), and
\* clean_filename(x) = x when x has only characters below 127 outside the
\* forbidden set.
C6_Idempotent ==
    /\ cf_pc = "recleaned" => cf_again = cf_out
    /\ (/\ cf_pc # "idle"
        /\ \A i \in 1..Len(cf_in) :
              cf_in[i] < 127 /\ cf_in[i] \notin {47, 63, 60, 62, 92, 58, 42, 124, 34})
          => cf_out = cf_in

C6_Witness ==
    /\ cf_pc = "recleaned"
    /\ cf_in = <<97, 58, 233>>
    /\ cf_out = <<97, 95, 95>>
    /\ cf_again = cf_out

---------------------------------------------------------------------------
(* C7, C8 *)

\* C7 as stated: when SVG rendering is requested and a combined file was
\* produced, a failing rendering pipeline makes session finish raise; it never
\* returns normally with svg_name recorded while the rendering failed.
C7_RenderFailureRaises ==
    hook_res.render = "failed"
        => hook_res.finish = "raised" /\ ~(FinishReturned /\ svg_name # None)

\* C8 as stated: session start ignores only the directory-already-exists
\* error; any other failure of os.makedirs propagates and aborts the session.
C8_OtherErrorsPropagate ==
    hook_res.mkdir = "EACCES"
        => hook_res.start = "raised" /\ phase = "aborted"

---------------------------------------------------------------------------
(* C9 *)

\* C9 as stated: the terminal summary prints the header and the listing iff
\* session finish produced a combined file, prints the SVG message iff a graph
\* artifact was produced, and prints nothing when no test was captured or
\* when it is invoked before session finish.
C9_SummaryIff ==
    /\ hook_res.summary_at \in {"configured", "running"} => out = <<>>
    /\ hook_res.summary_at = "finished" =>
         /\ CombinedProduced <=>
               /\ Len(out) >= 2
               /\ out[1] = HeaderMsg(combined_file)
               /\ out[2] = StatsMsg(LoadStats(combined_file))
         /\ svg_file \in DOMAIN fs <=> SvgMsg(svg_file) \in Range(out)
         /\ runs = <<>> => out = <<>>

---------------------------------------------------------------------------
(* C10 *)

\* C10: prof/combined.svg exists, and svg_name is recorded, only if the svg
\* flag is set and a combined statistics file was produced; with the svg flag
\* set and no captured test in per-test mode neither is produced.
C10_SvgOnlyIf ==
    /\ (svg_file \in DOMAIN fs \/ svg_name # None)
          => svg /\ svg_name = svg_file /\ CombinedProduced
    /\ (PerTestMode /\ svg /\ phase = "finished" /\ Len(CompletedRuns) = 0)
          => svg_name = None /\ svg_file \notin DOMAIN fs /\ CombinedAbsent

C10_Witness ==
    /\ svg_file \in DOMAIN fs
    /\ svg_name = svg_file
    /\ hook_res.render = "ok"

---------------------------------------------------------------------------
(* C11 *)

\* C11: pytest_configure registers the plugin if and only if --profile or
\* --profile-svg is set (so --profile-svg alone registers it and
\* --profile-combined-only alone does not), and the registered instance's svg
\* and combined_only flags are the values of --profile-svg and
\* --profile-combined-only.
C11_RegisteredIff ==
    /\ phase = "init" => ~registered
    /\ phase # "init" =>
         /\ registered <=> (opts.profile \/ opts.profile_svg)
         /\ registered => /\ svg = opts.profile_svg
                          /\ combined_only = opts.profile_combined_only
                          /\ shared_profiler.present = opts.profile_combined_only

C11_Witness ==
    /\ phase = "configured"
    /\ opts = [profile |-> FALSE, profile_svg |-> TRUE,
               profile_combined_only |-> TRUE]
    /\ registered /\ svg /\ combined_only

---------------------------------------------------------------------------
(* C12 *)

IsReturnedAt(k) == runs[k].outcome = "returned"

\* the indices of the runs whose per-test hook invocation returned normally
CompletedIdx == { k \in 1..Len(runs) : IsReturnedAt(k) }

PathOfRun(k) == prof_path(runs[k].name)

SharesFile(j, k) == PathOfRun(j) = PathOfRun(k)

\* the runs whose statistics are still in their file at session finish
LastWriters ==
    { k \in CompletedIdx : \A j \in CompletedIdx : SharesFile(j, k) => j <= k }

CompletedPathsDistinct ==
    \A j, k \in CompletedIdx : SharesFile(j, k) => j = k

---------------------------------------------------------------------------
(* C13 *)

\* C13 as stated: prof/combined.prof is written by session finish only; no
\* other hook, and no per-test hook invocation for any test name, writes to
\* that path, so before session finish there is no combined file.
C13_OnlyAtFinish ==
    phase # "finished" => combined_file \notin DOMAIN fs

---------------------------------------------------------------------------
(* C14 *)

PerTestHookReturned ==
    /\ PerTestMode
    /\ Len(runs') = Len(runs) + 1
    /\ runs'[Len(runs')].outcome = "returned"

\* C14: prof_names is append-only and in execution order: a per-test hook
\* invocation that completes in per-test mode appends exactly one entry, the
\* path of that test's file, at the end; every other step (session start,
\* session finish, terminal summary, a hook invocation that raises) leaves
\* the list as it was.
C14_AppendOnly ==
    [][IF PerTestHookReturned
       THEN prof_names' = Append(prof_names, prof_path(runs'[Len(runs')].name))
       ELSE prof_names' = prof_names]_vars

C14_Witness ==
    /\ PerTestMode
    /\ phase = "finished"
    /\ hook_res.summary = "returned"
    /\ Len(runs) = 2
    /\ prof_names = << join(<<97, 95, 98>>, "prof"), join(<<97>>, "prof") >>

---------------------------------------------------------------------------
(* C15 *)

HookInvoked == Len(runs') = Len(runs) + 1

\* C15: in combined-only mode the shared profiler is constructed with the
\* plugin, every per-test hook invocation captures into it on top of what it
\* already holds, and no other step replaces or resets it; in per-test mode
\* the shared profiler stays absent and every per-test hook invocation dumps
\* from a fresh profiler that holds that test's capture alone.
C15_OneSharedProfiler ==
    [][/\ (~registered /\ registered')
            => shared_profiler' = [present |-> combined_only',
                                   stats |-> EmptyBag]
       /\ CombinedOnlyMode
            => /\ shared_profiler.present /\ shared_profiler'.present
               /\ IF HookInvoked
                  THEN shared_profiler'.stats =
                           shared_profiler.stats (+) SetToBag({Len(runs')})
                  ELSE shared_profiler' = shared_profiler
       /\ PerTestMode
            => /\ ~shared_profiler.present
               /\ shared_profiler' = shared_profiler
               /\ PerTestHookReturned
                    => fs'[prof_names'[Len(prof_names')]].stats
                           = SetToBag({Len(runs')})]_vars

C15_Witness ==
    /\ CombinedOnlyMode
    /\ phase = "running"
    /\ Len(runs) = 2
    /\ runs[1].outcome = "body_raised"
    /\ shared_profiler = [present |-> TRUE, stats |-> SetToBag({1, 2})]

---------------------------------------------------------------------------
(* C16 *)

\* the completed runs j < k with distinct names and the same sanitized name
Collides(j, k) ==
    /\ j \in CompletedIdx /\ k \in CompletedIdx
    /\ j < k
    /\ runs[j].name # runs[k].name
    /\ SharesFile(j, k)

TimesRecorded(path) == Cardinality({ i \in 1..Len(prof_names) : prof_names[i] = path })

\* C16: when two executed tests have distinct names that sanitize to the same
\* string, no hook raises for it; the file holds the later test's statistics
\* and no longer the earlier test's, the record list has one entry per test
\* (the same path each time), and session finish merges that file once per
\* recorded entry.
C16_SilentOverwrite ==
    PerTestMode =>
        \A j, k \in 1..Len(runs) :
            Collides(j, k) =>
                /\ hook_res.finish # "raised" /\ hook_res.summary # "raised"
                /\ PathOfRun(k) \in DOMAIN fs
                /\ ~BagIn(j, fs[PathOfRun(k)].stats)
                /\ TimesRecorded(PathOfRun(k)) =
                       Cardinality({ i \in CompletedIdx : SharesFile(i, k) })
                /\ (FinishReturned /\ k \in LastWriters) =>
                       /\ fs[PathOfRun(k)].stats = SetToBag({k})
                       /\ CopiesIn(k, fs[combined_file].stats)
                              = TimesRecorded(PathOfRun(k))
                       /\ CopiesIn(j, fs[combined_file].stats) = 0

C16_Witness ==
    /\ PerTestMode /\ FinishReturned
    /\ Collides(1, 2)
    /\ prof_names = << join(<<97, 95, 98>>, "prof"), join(<<97, 95, 98>>, "prof") >>
    /\ fs[combined_file].stats = (2 :> 2)
    /\ hook_res.summary = "returned"

---------------------------------------------------------------------------
(* C17 *)

BodyRaised(k) == runs[k].outcome = "body_raised"

\* C17: when the wrapped test execution raises inside the per-test hook, the
\* hook ends with that error and writes no statistics file, appends no entry
\* to the record list and leaves combined_name and svg_name alone; a per-test
\* session in which every test raises produces no combined file.
C17_BodyRaises ==
    /\ [][(HookInvoked /\ runs'[Len(runs')].outcome = "body_raised")
             => /\ fs' = fs
                /\ prof_names' = prof_names
                /\ combined_name' = combined_name
                /\ svg_name' = svg_name]_vars
    /\ []((/\ PerTestMode
           /\ phase = "finished"
           /\ \A k \in 1..Len(runs) : BodyRaised(k))
             => CombinedAbsent /\ svg_name = None /\ fs = <<>>)

C17_Witness ==
    /\ PerTestMode /\ svg
    /\ phase = "finished" /\ FinishReturned
    /\ Len(runs) = 2
    /\ BodyRaised(1) /\ BodyRaised(2)
    /\ CombinedAbsent

===========================================================================
